---- MODULE Spec2Model ----
(***************************************************************************)
(* Model of jaxlib/mosaic/dialect/tpu/tpu_dialect.cc:                      *)
(*   - isGuaranteedDivisible, as a call-stack machine and as an operator;  *)
(*   - TiledLayoutAttr::print / ::parse over character sequences;          *)
(*   - TiledLayoutAttr::getAffineMap, one loop iteration per step.         *)
(***************************************************************************)
EXTENDS Integers, Sequences, FiniteSets

VARIABLES
    value,      \* prover: the Value passed to the outermost call
    divisor,    \* prover: the divisor argument
    fuel,       \* prover: the fuel argument of the outermost call
    stack,      \* prover: active calls, outermost first
    ret,        \* prover: <<b>> when the call that just ended returned b, else <<>>
    attr,       \* layout: the attribute (tiles, tile_strides), or Null
    text,       \* layout: the characters printed / given to the parser
    malformed,  \* layout: how the parsed text was damaged, or "no"
    parsed,     \* layout: result of TiledLayoutAttr::parse (Null before it ran)
    map,        \* layout: the AffineMap accumulated by getAffineMap
    tileIdx,    \* layout: number of tiles getAffineMap has processed
    lpc         \* layout: position of the layout scenario

vars == <<value, divisor, fuel, stack, ret,
          attr, text, malformed, parsed, map, tileIdx, lpc>>

proverVars == <<value, divisor, fuel, stack, ret>>
layoutVars == <<attr, text, malformed, parsed, map, tileIdx, lpc>>

Null == [null |-> TRUE]

(***************************************************************************)
(* Bounds of the model.                                                    *)
(***************************************************************************)
MaxNodes == 5       \* operations in an expression graph
MaxFuel == 4        \* largest of the small fuels passed to the outermost call

ConstVals == {3, 4, 6}
AssumeVals == {6}
OpaqueIds == {"x"}
Divisors == {1, 2, 3, 4, 6, 12}
OpaqueVals == {-6, 0, 1, 2, 5, 6}

(***************************************************************************)
(* Expression graphs: a Value is identified with its defining operation.   *)
(* Opaque values with the same id are the same SSA value, so the trees     *)
(* below denote DAGs with sharing.                                         *)
(***************************************************************************)
Const(c) == [op |-> "const", int |-> TRUE, val |-> c]
FloatConst == [op |-> "const", int |-> FALSE]
Opaque(x) == [op |-> "opaque", id |-> x]
Mul(a, b) == [op |-> "mul", lhs |-> a, rhs |-> b]
Cast(a) == [op |-> "cast", operand |-> a]
AssumeMultiple(m, a) == [op |-> "assume", multiple |-> m, operand |-> a]

Leaves == {Const(c) : c \in ConstVals} \cup {Opaque(x) : x \in OpaqueIds}

RECURSIVE ExprsOfSize(_)
ExprsOfSize(n) ==
    IF n = 1 THEN Leaves
    ELSE {Cast(e) : e \in ExprsOfSize(n - 1)}
         \cup (IF n = 2
               THEN {AssumeMultiple(m, Opaque(x)) : m \in AssumeVals, x \in OpaqueIds}
               ELSE {})
         \cup UNION {{Mul(a, b) : a \in ExprsOfSize(i), b \in ExprsOfSize(n - 1 - i)}
                     : i \in 1..(n - 2)}

Exprs == UNION {ExprsOfSize(n) : n \in 1..MaxNodes}

\* index_cast(muli(a, muli(b, y))) with each multiply's operands in either order
NestedProducts ==
    LET y == Opaque("x")
        inner(b) == {Mul(Const(b), y), Mul(y, Const(b))}
    IN  UNION {UNION {{Cast(Mul(Const(a), i)), Cast(Mul(i, Const(a)))} : i \in inner(b)}
               : <<a, b>> \in ConstVals \X ConstVals}

Values == Exprs \cup NestedProducts \cup {FloatConst}

(***************************************************************************)
(* Integer semantics of a graph under an assignment to the opaque values.  *)
(***************************************************************************)
Envs == [OpaqueIds -> OpaqueVals]

RECURSIVE Eval(_, _)
Eval(e, env) ==
    CASE e.op = "const" -> e.val
      [] e.op = "opaque" -> env[e.id]
      [] e.op = "mul" -> Eval(e.lhs, env) * Eval(e.rhs, env)
      [] e.op = "cast" -> Eval(e.operand, env)
      [] e.op = "assume" -> Eval(e.operand, env)

\* every assume_multiple annotation in the graph is true under env
RECURSIVE Honest(_, _)
Honest(e, env) ==
    CASE e.op = "mul" -> Honest(e.lhs, env) /\ Honest(e.rhs, env)
      [] e.op = "cast" -> Honest(e.operand, env)
      [] e.op = "assume" -> Eval(e.operand, env) % e.multiple = 0
      [] OTHER -> TRUE

(***************************************************************************)
(* isGuaranteedDivisible: the pieces of its case analysis.                 *)
(***************************************************************************)
\* fuel is an int64_t.  A 64-bit value is held as three limbs,
\*     a * LimbBase^2 + b * LimbBase + c,   0 <= b, c < LimbBase,
\* with the signed top limb -LimbBase <= a < LimbBase.
LimbBase == 2^21

I64Of(a, b, c) == [a |-> a, b |-> b, c |-> c]
INT64_MAX == I64Of(LimbBase - 1, LimbBase - 1, LimbBase - 1)
INT64_MIN == I64Of(-LimbBase, 0, 0)

\* the int64_t with the value of the small integer n
I64(n) ==
    LET c == n % LimbBase
        q == (n - c) \div LimbBase
        b == q % LimbBase
    IN  I64Of((q - b) \div LimbBase, b, c)

Less(x, y) ==
    \/ x.a < y.a
    \/ x.a = y.a /\ x.b < y.b
    \/ x.a = y.a /\ x.b = y.b /\ x.c < y.c
Leq(x, y) == x = y \/ Less(x, y)

\* x + 1 and x - 1 where they do not overflow
Inc(x) ==
    IF x.c < LimbBase - 1 THEN I64Of(x.a, x.b, x.c + 1)
    ELSE IF x.b < LimbBase - 1 THEN I64Of(x.a, x.b + 1, 0)
    ELSE I64Of(x.a + 1, 0, 0)
Dec(x) ==
    IF x.c > 0 THEN I64Of(x.a, x.b, x.c - 1)
    ELSE IF x.b > 0 THEN I64Of(x.a, x.b - 1, LimbBase - 1)
    ELSE I64Of(x.a - 1, LimbBase - 1, LimbBase - 1)

\* x / 2 as C++ divides: rounded toward zero
Div2(x) ==
    LET down == I64Of(x.a \div 2,
                      ((x.a % 2) * LimbBase + x.b) \div 2,
                      ((x.b % 2) * LimbBase + x.c) \div 2)
    IN  IF x.a < 0 /\ x.c % 2 = 1 THEN Inc(down) ELSE down

FuelExhausted(f) == Leq(f, I64(0))

AssumeDivisible(m, d) == m % d = 0

ConstDivisibleSwapped(c, d) == c.int /\ d % c.val = 0
ConstDivisible(c, d) == c.int /\ c.val % d = 0

\* fuel / 2
RhsFuel(f) == Div2(f)

\* (fuel + 1) / 2: the fuels the lhs call can get.  For fuel = INT64_MAX the
\* addition overflows a signed integer, which is undefined: a build that wraps
\* passes INT64_MIN / 2 = -2^62, a build that relies on fuel + 1 > 0 and
\* shifts passes 2^62.
LhsFuel(f) ==
    IF f = INT64_MAX THEN {Div2(INT64_MIN), Inc(Div2(INT64_MAX))}
    ELSE {Div2(Inc(f))}

\* fuel - 1 (reached with fuel > 0 only, line 188)
CastFuel(f) == Dec(f)

OpaqueProven(v) == TRUE
OpaqueNotProven(v) == FALSE

\* the function, computed as the C++ computes it (|| evaluates the rhs call
\* first, the lhs call only when that returned false): the set of values the
\* call can return, a single one unless the lhs fuel is undefined
RECURSIVE isGuaranteedDivisible(_, _, _)
isGuaranteedDivisible(v, d, f) ==
    IF FuelExhausted(f) THEN {FALSE}
    ELSE CASE v.op = "assume" -> {AssumeDivisible(v.multiple, d)}
           [] v.op = "mul" ->
                LET r == isGuaranteedDivisible(v.rhs, d, RhsFuel(f))
                IN  (r \cap {TRUE})
                    \cup (IF FALSE \in r
                          THEN UNION {isGuaranteedDivisible(v.lhs, d, lf)
                                      : lf \in LhsFuel(f)}
                          ELSE {})
           [] v.op = "const" -> {ConstDivisible(v, d)}
           [] v.op = "cast" -> isGuaranteedDivisible(v.operand, d, CastFuel(f))
           [] OTHER -> {OpaqueNotProven(v)}

\* fuels of the outermost call: the small ones, and the largest int64_t values
Fuels == {I64(n) : n \in (-1)..MaxFuel}
            \cup {I64(2147483647), Dec(INT64_MAX), INT64_MAX}

(***************************************************************************)
(* The same function as a machine with an explicit call stack.  A frame is *)
(* one active call: its value, its fuel, and where it stands ("entry":     *)
(* just called; "rhs" / "lhs" / "cast": waiting for that recursive call).  *)
(***************************************************************************)
Frame(v, f, at) == [v |-> v, fuel |-> f, at |-> at]

Top == stack[Len(stack)]
Pop == SubSeq(stack, 1, Len(stack) - 1)
Running == stack # <<>>
AtEntry == Running /\ Top.at = "entry"
Returned == ret # <<>>
RetVal == ret[1]
Done == stack = <<>> /\ Returned

Call(at, v, f) ==
    /\ stack' = Append([stack EXCEPT ![Len(stack)].at = at], Frame(v, f, "entry"))
    /\ ret' = <<>>

Return(b) ==
    /\ stack' = Pop
    /\ ret' = <<b>>

ProverInitial ==
    /\ value \in Values
    /\ divisor \in Divisors
    /\ fuel \in Fuels
    /\ stack = <<Frame(value, fuel, "entry")>>
    /\ ret = <<>>
    \* the layout scenario is not running
    /\ attr = Null /\ text = <<>> /\ malformed = "no" /\ parsed = Null
    /\ map = Null /\ tileIdx = 0 /\ lpc = "idle"

OutOfFuel ==
    /\ AtEntry /\ FuelExhausted(Top.fuel)
    /\ Return(FALSE)
    /\ UNCHANGED <<value, divisor, fuel>>
    /\ UNCHANGED layoutVars

AssumeCase ==
    /\ AtEntry /\ ~FuelExhausted(Top.fuel) /\ Top.v.op = "assume"
    /\ Return(AssumeDivisible(Top.v.multiple, divisor))
    /\ UNCHANGED <<value, divisor, fuel>>
    /\ UNCHANGED layoutVars

MulCallRhs ==
    /\ AtEntry /\ ~FuelExhausted(Top.fuel) /\ Top.v.op = "mul"
    /\ Call("rhs", Top.v.rhs, RhsFuel(Top.fuel))
    /\ UNCHANGED <<value, divisor, fuel>>
    /\ UNCHANGED layoutVars

MulRhsProved ==
    /\ Running /\ Top.at = "rhs" /\ Returned /\ RetVal
    /\ Return(TRUE)
    /\ UNCHANGED <<value, divisor, fuel>>
    /\ UNCHANGED layoutVars

MulCallLhs ==
    /\ Running /\ Top.at = "rhs" /\ Returned /\ ~RetVal
    /\ \E lf \in LhsFuel(Top.fuel) : Call("lhs", Top.v.lhs, lf)
    /\ UNCHANGED <<value, divisor, fuel>>
    /\ UNCHANGED layoutVars

MulReturnLhs ==
    /\ Running /\ Top.at = "lhs" /\ Returned
    /\ Return(RetVal)
    /\ UNCHANGED <<value, divisor, fuel>>
    /\ UNCHANGED layoutVars

ConstCase ==
    /\ AtEntry /\ ~FuelExhausted(Top.fuel) /\ Top.v.op = "const"
    /\ Return(ConstDivisible(Top.v, divisor))
    /\ UNCHANGED <<value, divisor, fuel>>
    /\ UNCHANGED layoutVars

CastCall ==
    /\ AtEntry /\ ~FuelExhausted(Top.fuel) /\ Top.v.op = "cast"
    /\ Call("cast", Top.v.operand, CastFuel(Top.fuel))
    /\ UNCHANGED <<value, divisor, fuel>>
    /\ UNCHANGED layoutVars

CastReturn ==
    /\ Running /\ Top.at = "cast" /\ Returned
    /\ Return(RetVal)
    /\ UNCHANGED <<value, divisor, fuel>>
    /\ UNCHANGED layoutVars

OpaqueCase ==
    /\ AtEntry /\ ~FuelExhausted(Top.fuel)
    /\ Top.v.op \notin {"assume", "mul", "const", "cast"}
    /\ Return(OpaqueNotProven(Top.v))
    /\ UNCHANGED <<value, divisor, fuel>>
    /\ UNCHANGED layoutVars

(***************************************************************************)
(* Properties of isGuaranteedDivisible (checked under ProverSpec).         *)
(***************************************************************************)
\* the machine and the recursive operator compute the same function
MachineAgrees == Done => (RetVal \in isGuaranteedDivisible(value, divisor, fuel))

\* C1: soundness.  When the outermost call returns true, the value of the
\* graph is divisible by the divisor under every assignment to the opaque
\* values that makes the assume_multiple annotations true.
C1_Soundness ==
    (Done /\ RetVal) =>
        \A env \in Envs : Honest(value, env) => Eval(value, env) % divisor = 0

C1_Witness ==
    /\ Done /\ RetVal /\ divisor > 1
    /\ value.op = "cast" /\ value.operand.op = "mul"

\* index_cast(muli(constant 3, muli(constant 4, y)))
NestedC5 == Cast(Mul(Const(3), Mul(Const(4), Opaque("x"))))

\* C5 as stated: on index_cast(3 * (4 * y)) the call with divisor 12 and
\* fuel 4 returns true.
C5_Original ==
    (Done /\ value = NestedC5 /\ divisor = 12 /\ fuel = I64(4)) => RetVal

\* C5 amended: constant factors of nested multiplies are not combined.  On
\* index_cast(3 * (4 * y)) the call with divisor 12 returns false for every
\* fuel, and with fuel 4 it returns true exactly for the divisors of 3 alone
\* or of 4 alone.
C5_NotCombined ==
    (Done /\ value = NestedC5) =>
        /\ divisor = 12 => ~RetVal
        /\ fuel = I64(4) => (RetVal <=> (3 % divisor = 0 \/ 4 % divisor = 0))

C5_Witness ==
    Done /\ value = NestedC5 /\ divisor = 12 /\ fuel = I64(4) /\ ~RetVal

ConstLeft == value.op = "mul" /\ value.lhs.op = "const" /\ value.rhs.op = "opaque"
ConstRight == value.op = "mul" /\ value.rhs.op = "const" /\ value.lhs.op = "opaque"
FactorDivisible ==
    \/ ConstLeft /\ value.lhs.val % divisor = 0
    \/ ConstRight /\ value.rhs.val % divisor = 0

\* C6 as stated: a multiply of a constant c and an opaque value, the constant
\* on either side, is proven divisible by every d with c mod d = 0 for every
\* fuel >= 1.
C6_Original ==
    (Done /\ FactorDivisible /\ Leq(I64(1), fuel)) => RetVal

\* C7 as stated: fuel monotonicity.  When the call returns true with its
\* fuel, the function returns true for the same value and divisor with every
\* larger fuel.
C7_FuelMonotone ==
    (Done /\ RetVal) =>
        \A f2 \in Fuels \cup {I64(MaxFuel + 1), I64(MaxFuel + 2)} :
            Leq(fuel, f2) => isGuaranteedDivisible(value, divisor, f2) = {TRUE}

\* C8 as stated: every recursive call gets strictly less fuel than its
\* caller, so the number of nested calls that passed the fuel check never
\* exceeds the fuel of the outermost call.
C8_DepthBoundedByFuel ==
    Leq(I64(1), fuel) =>
        /\ \A i \in 1..(Len(stack) - 1) : Less(stack[i + 1].fuel, stack[i].fuel)
        /\ Leq(I64(Cardinality({i \in 1..Len(stack) : ~FuelExhausted(stack[i].fuel)})),
               fuel)

(***************************************************************************)
(* Tiled layouts.  A tile is the sequence of its dimension sizes; the      *)
(* attribute holds the tiles and the tile strides exactly as handed to     *)
(* TiledLayoutAttr::get, which stores them unchecked.                      *)
(***************************************************************************)
MaxTiles == 2       \* tiles in a layout
MaxRank == 2        \* dimensions of a tile
MaxStrides == 2     \* entries of tile_strides

DimSizes == {2, 13}
StrideVals == {-1, 10}
Coords == {-3, 5, 27}

SeqsUpTo(S, n) == UNION {[1..k -> S] : k \in 0..n}

Tiles == SeqsUpTo(DimSizes, MaxRank)
Layouts == [tiles : SeqsUpTo(Tiles, MaxTiles), strides : SeqsUpTo(StrideVals, MaxStrides)]

get(tiles, tile_strides) == [tiles |-> tiles, strides |-> tile_strides]

(***************************************************************************)
(* Text is a sequence of one-character strings.                            *)
(***************************************************************************)
DigitChars == <<"0", "1", "2", "3", "4", "5", "6", "7", "8", "9">>
DigitSet == {DigitChars[i] : i \in 1..10}
DigitValues == [ch \in DigitSet |-> (CHOOSE i \in 1..10 : DigitChars[i] = ch) - 1]
IsDigit(ch) == ch \in DigitSet
DigitVal(ch) == DigitValues[ch]

RECURSIVE Decimal(_)
Decimal(n) ==
    IF n < 0 THEN <<"-">> \o Decimal(-n)
    ELSE IF n < 10 THEN <<DigitChars[n + 1]>>
    ELSE Decimal(n \div 10) \o <<DigitChars[(n % 10) + 1]>>

RECURSIVE JoinNoSeparator(_)
JoinNoSeparator(ints) ==
    IF ints = <<>> THEN <<>>
    ELSE Decimal(Head(ints)) \o JoinNoSeparator(Tail(ints))

\* absl::StrJoin(elements, ",") / the loop of lines 93-98
RECURSIVE JoinComma(_)
JoinComma(ints) ==
    IF ints = <<>> THEN <<>>
    ELSE IF Len(ints) = 1 THEN Decimal(ints[1])
    ELSE Decimal(Head(ints)) \o <<",">> \o JoinComma(Tail(ints))

TileToString(tile) == <<"(">> \o JoinComma(tile) \o <<")">>

RECURSIVE PrintTiles(_)
PrintTiles(tiles) ==
    IF tiles = <<>> THEN <<>>
    ELSE TileToString(Head(tiles)) \o PrintTiles(Tail(tiles))

PrintStridesUnseparated(strides) == JoinNoSeparator(strides)
PrintStrides(strides) == JoinComma(strides)

print(a) ==
    <<"<">> \o PrintTiles(a.tiles) \o <<",", "[">> \o PrintStrides(a.strides)
            \o <<"]", ">">>

(***************************************************************************)
(* The parser primitives TiledLayoutAttr::parse calls.  A position is an   *)
(* index into the text; 0 stands for failure.  Every primitive first skips *)
(* white space, as the lexer does.                                         *)
(***************************************************************************)
RECURSIVE SkipSpace(_, _)
SkipSpace(t, pos) ==
    IF pos <= Len(t) /\ t[pos] = " " THEN SkipSpace(t, pos + 1) ELSE pos

\* parseLess, parseComma, parseGreater and the parseOptional* probes: the
\* position after the punctuation ch, or 0 when the next token is not ch
Accept(t, pos, ch) ==
    LET p == SkipSpace(t, pos)
    IN  IF p <= Len(t) /\ t[p] = ch THEN p + 1 ELSE 0

RECURSIVE DigitRun(_, _, _)
DigitRun(t, pos, acc) ==
    IF pos <= Len(t) /\ IsDigit(t[pos])
    THEN DigitRun(t, pos + 1, 10 * acc + DigitVal(t[pos]))
    ELSE [val |-> acc, pos |-> pos]

\* parseInteger: an optional minus token, then an integer token
parseInteger(t, pos) ==
    LET p == SkipSpace(t, pos)
        neg == p <= Len(t) /\ t[p] = "-"
        q == IF neg THEN SkipSpace(t, p + 1) ELSE p
    IN  IF q <= Len(t) /\ IsDigit(t[q])
        THEN LET r == DigitRun(t, q, 0)
             IN  [ok |-> TRUE, val |-> IF neg THEN -r.val ELSE r.val, pos |-> r.pos]
        ELSE [ok |-> FALSE, val |-> 0, pos |-> 0]

\* the loops of lines 111-122 and 131-142: integers separated by commas up to
\* the closing bracket
RECURSIVE ParseIntList(_, _, _, _, _)
ParseIntList(t, pos, close, first, acc) ==
    LET c == Accept(t, pos, close)
    IN  IF c # 0 THEN [ok |-> TRUE, ints |-> acc, pos |-> c]
        ELSE LET p == IF first THEN pos ELSE Accept(t, pos, ",")
             IN  IF p = 0 THEN [ok |-> FALSE, ints |-> <<>>, pos |-> 0]
                 ELSE LET n == parseInteger(t, p)
                      IN  IF ~n.ok THEN [ok |-> FALSE, ints |-> <<>>, pos |-> 0]
                          ELSE ParseIntList(t, n.pos, close, FALSE, Append(acc, n.val))

\* the loop of lines 108-123
RECURSIVE ParseTiles(_, _, _)
ParseTiles(t, pos, acc) ==
    LET o == Accept(t, pos, "(")
    IN  IF o = 0 THEN [ok |-> TRUE, tiles |-> acc, pos |-> pos]
        ELSE LET d == ParseIntList(t, o, ")", TRUE, <<>>)
             IN  IF ~d.ok THEN [ok |-> FALSE, tiles |-> <<>>, pos |-> 0]
                 ELSE ParseTiles(t, d.pos, Append(acc, d.ints))

\* lines 129-145: the bracketed stride list is not optional
StrideSectionOptional(t, pos) ==
    LET sq == Accept(t, pos, "[")
    IN  IF sq = 0 THEN [ok |-> TRUE, ints |-> <<>>, pos |-> pos]
        ELSE ParseIntList(t, sq, "]", TRUE, <<>>)
StrideSection(t, pos) ==
    LET sq == Accept(t, pos, "[")
    IN  IF sq = 0 THEN [ok |-> FALSE, ints |-> <<>>, pos |-> 0]
        ELSE ParseIntList(t, sq, "]", TRUE, <<>>)

parse(t) ==
    LET lt == Accept(t, 1, "<")
    IN  IF lt = 0 THEN Null ELSE
        LET ts == ParseTiles(t, lt, <<>>)
        IN  IF ~ts.ok THEN Null ELSE
            LET comma == Accept(t, ts.pos, ",")
            IN  IF comma = 0 THEN Null ELSE
                LET st == StrideSection(t, comma)
                IN  IF ~st.ok THEN Null ELSE
                    LET gt == Accept(t, st.pos, ">")
                    IN  IF gt = 0 THEN Null
                        ELSE get(ts.tiles, st.ints)

(***************************************************************************)
(* Affine maps: numDims inputs, one expression per result.  Dimension      *)
(* positions are 0-based as in getAffineDimExpr.                           *)
(***************************************************************************)
Dim(i) == [kind |-> "dim", pos |-> i]
FloorDiv(e, c) == [kind |-> "floordiv", arg |-> e, c |-> c]
Mod(e, c) == [kind |-> "mod", arg |-> e, c |-> c]

AffineMapGet(n, exprs) == [numDims |-> n, results |-> exprs]

getMultiDimIdentityMap(n) == AffineMapGet(n, [i \in 1..n |-> Dim(i - 1)])

getNumResults(m) == Len(m.results)

RECURSIVE Subst(_, _)
Subst(e, rs) ==
    CASE e.kind = "dim" -> rs[e.pos + 1]
      [] e.kind = "floordiv" -> FloorDiv(Subst(e.arg, rs), e.c)
      [] e.kind = "mod" -> Mod(Subst(e.arg, rs), e.c)

\* a.compose(b): b is applied first, its results feed the dimensions of a
ComposeSwapped(a, b) ==
    AffineMapGet(a.numDims, [i \in 1..Len(b.results) |-> Subst(b.results[i], a.results)])
Compose(a, b) ==
    AffineMapGet(b.numDims, [i \in 1..Len(a.results) |-> Subst(a.results[i], b.results)])

RECURSIVE EvalExpr(_, _)
EvalExpr(e, x) ==
    CASE e.kind = "dim" -> x[e.pos + 1]
      [] e.kind = "floordiv" -> EvalExpr(e.arg, x) \div e.c
      [] e.kind = "mod" -> EvalExpr(e.arg, x) % e.c

EvalMap(m, x) == [i \in 1..Len(m.results) |-> EvalExpr(m.results[i], x)]

UntiledDims(m, dimensions) == getNumResults(m) - Len(dimensions)

\* lines 163-173 without the remainder loop
TileExprsNoRemainder(m, dimensions) ==
    LET u == UntiledDims(m, dimensions)
        k == Len(dimensions)
    IN  [i \in 1..u |-> Dim(i - 1)]
        \o [i \in 1..k |-> FloorDiv(Dim(u + i - 1), dimensions[i])]
\* lines 163-173: the exprs pushed for one tile
TileExprs(m, dimensions) ==
    LET u == UntiledDims(m, dimensions)
        k == Len(dimensions)
    IN  [i \in 1..u |-> Dim(i - 1)]
        \o [i \in 1..k |-> FloorDiv(Dim(u + i - 1), dimensions[i])]
        \o [i \in 1..k |-> Mod(Dim(u + i - 1), dimensions[i])]

\* line 174
TileMap(m, dimensions) == AffineMapGet(getNumResults(m), TileExprs(m, dimensions))

(***************************************************************************)
(* Layout scenario: an attribute is built and printed; the printed text or *)
(* a damaged copy of it is parsed; a parsed attribute is asked for its     *)
(* affine map.                                                             *)
(***************************************************************************)
LayoutInitial ==
    /\ attr \in Layouts
    /\ text = <<>> /\ malformed = "no" /\ parsed = Null
    /\ map = Null /\ tileIdx = 0 /\ lpc = "built"
    \* no call of isGuaranteedDivisible is running
    /\ value = Null /\ divisor = 0 /\ fuel = I64(0) /\ stack = <<>> /\ ret = <<>>

PrintAttr ==
    /\ lpc = "built"
    /\ text' = print(attr)
    /\ lpc' = "printed"
    /\ UNCHANGED <<attr, malformed, parsed, map, tileIdx>>
    /\ UNCHANGED proverVars

RemoveAt(t, i) == SubSeq(t, 1, i - 1) \o SubSeq(t, i + 1, Len(t))
ReplaceAt(t, i, ch) == [t EXCEPT ![i] = ch]

\* lines 102-150 on the printed text
Parse ==
    /\ lpc = "printed"
    /\ parsed' = parse(text)
    /\ lpc' = "parsed"
    /\ UNCHANGED <<attr, text, malformed, map, tileIdx>>
    /\ UNCHANGED proverVars

\* lines 102-150 on the text t, a damaged copy of the printed text
ParseDamaged(kind, t) ==
    /\ text' = t
    /\ malformed' = kind
    /\ parsed' = parse(t)
    /\ lpc' = "parsed"
    /\ UNCHANGED <<attr, map, tileIdx>>
    /\ UNCHANGED proverVars

\* the comma between the tiles and the stride list is missing
ParseNoSectionComma ==
    /\ lpc = "printed"
    /\ \E i \in 1..(Len(text) - 1) :
         /\ text[i] = "," /\ text[i + 1] = "["
         /\ ParseDamaged("section-comma", RemoveAt(text, i))

\* the comma between two integers is missing (white space keeps them apart)
ParseNoIntegerComma ==
    /\ lpc = "printed"
    /\ \E i \in 1..(Len(text) - 1) :
         /\ text[i] = "," /\ text[i + 1] # "["
         /\ ParseDamaged("integer-comma", ReplaceAt(text, i, " "))

\* a '(' is never closed
ParseUnclosedParen ==
    /\ lpc = "printed"
    /\ \E i \in 1..Len(text) :
         /\ text[i] = ")"
         /\ ParseDamaged("unclosed-paren", RemoveAt(text, i))

\* the '[' is never closed
ParseUnclosedSquare ==
    /\ lpc = "printed"
    /\ \E i \in 1..Len(text) :
         /\ text[i] = "]"
         /\ ParseDamaged("unclosed-square", RemoveAt(text, i))

\* the whole [...] section is missing
ParseNoStrides ==
    /\ lpc = "printed"
    /\ \E i \in 1..Len(text) :
         /\ text[i] = "["
         /\ ParseDamaged("no-strides", SubSeq(text, 1, i - 1) \o <<">">>)

\* the closing '>' is missing
ParseNoGreater ==
    /\ lpc = "printed"
    /\ ParseDamaged("no-greater", SubSeq(text, 1, Len(text) - 1))

\* a token that is no integer stands where an integer starts
ParseNonInteger ==
    /\ lpc = "printed"
    /\ \E i \in 2..Len(text) :
         /\ IsDigit(text[i]) \/ text[i] = "-"
         /\ ~IsDigit(text[i - 1]) /\ text[i - 1] # "-"
         /\ ParseDamaged("non-integer", ReplaceAt(text, i, "a"))

\* lines 153-155
AffineMapEntry ==
    /\ lpc = "parsed" /\ parsed # Null
    /\ map' = getMultiDimIdentityMap(Len(parsed.strides))
    /\ tileIdx' = 0
    /\ lpc' = "mapping"
    /\ UNCHANGED <<attr, text, malformed, parsed>>
    /\ UNCHANGED proverVars

NextTile == parsed.tiles[tileIdx + 1]

\* lines 156-176, one iteration that passes the check of line 160
AffineMapTile ==
    /\ lpc = "mapping" /\ tileIdx < Len(parsed.tiles)
    /\ UntiledDims(map, NextTile) >= 0
    /\ map' = Compose(TileMap(map, NextTile), map)
    /\ tileIdx' = tileIdx + 1
    /\ UNCHANGED <<attr, text, malformed, parsed, lpc>>
    /\ UNCHANGED proverVars

\* lines 160-162: LOG(FATAL) ends the process
AffineMapFatal ==
    /\ lpc = "mapping" /\ tileIdx < Len(parsed.tiles)
    /\ UntiledDims(map, NextTile) < 0
    /\ lpc' = "fatal"
    /\ UNCHANGED <<attr, text, malformed, parsed, map, tileIdx>>
    /\ UNCHANGED proverVars

\* line 177
AffineMapReturn ==
    /\ lpc = "mapping" /\ tileIdx = Len(parsed.tiles)
    /\ lpc' = "mapped"
    /\ UNCHANGED <<attr, text, malformed, parsed, map, tileIdx>>
    /\ UNCHANGED proverVars

(***************************************************************************)
(* Properties of the tiled layout (C2, C3 under ParseSpec; the others      *)
(* under AffineSpec).                                                      *)
(***************************************************************************)
\* C2: round trip.  Parsing the text printed for an attribute succeeds and
\* yields the same tiles and the same tile strides, in the same order.
C2_RoundTrip ==
    (lpc = "parsed" /\ malformed = "no") =>
        /\ parsed # Null
        /\ parsed.tiles = attr.tiles
        /\ parsed.strides = attr.strides

C2_Witness ==
    /\ lpc = "parsed" /\ malformed = "no"
    /\ attr.tiles = <<<<2, 13>>, <<>>>>
    /\ attr.strides = <<-1, 10>>
    /\ parsed = attr

\* C3: a text with a missing section comma, a missing comma between two
\* integers, an unclosed '(' or '[', no stride section, no closing '>' or a
\* non-integer token in place of an integer is rejected with the null
\* attribute; no attribute is built from it.
C3_RejectsMalformed ==
    (lpc = "parsed" /\ malformed # "no") => parsed = Null

C3_Witness ==
    /\ lpc = "parsed" /\ parsed = Null
    /\ malformed = "no-strides"
    /\ Len(attr.tiles) = 2

RECURSIVE SumRanks(_)
SumRanks(tiles) ==
    IF tiles = <<>> THEN 0 ELSE Len(Head(tiles)) + SumRanks(Tail(tiles))

\* C4 as stated: the map returned by getAffineMap has as many results as the
\* stride list has entries.
C4_Original ==
    lpc = "mapped" => getNumResults(map) = Len(parsed.strides)

\* C4 amended: the returned map takes as many dimensions as the stride list
\* has entries, and its number of results is that length plus the sum of the
\* ranks of the tiles.
C4_MapRank ==
    lpc = "mapped" =>
        /\ map.numDims = Len(parsed.strides)
        /\ getNumResults(map) = Len(parsed.strides) + SumRanks(parsed.tiles)

C4_Witness ==
    /\ lpc = "mapped"
    /\ Len(parsed.tiles) = 2 /\ Len(parsed.tiles[1]) = 2 /\ Len(parsed.tiles[2]) = 1
    /\ getNumResults(map) = 5

\* C9 as stated: getAffineMap on an attribute returned by a successful parse
\* never reaches LOG(FATAL).
C9_ParsedNeverFatal ==
    parsed # Null => lpc # "fatal"

CoordTuples(n) == [1..n -> Coords]

\* C10 as stated: at each tile the tile's own map is applied first and its
\* results feed the map accumulated so far: new(x) = accumulated(tile_map(x)).
C10_Original ==
    [][AffineMapTile =>
        LET tm == TileMap(map, NextTile)
        IN  /\ getNumResults(tm) = map.numDims
            /\ map'.numDims = tm.numDims
            /\ \A x \in CoordTuples(tm.numDims) :
                 EvalMap(map', x) = EvalMap(map, EvalMap(tm, x))]_vars

\* C10 amended: at each tile the map accumulated so far is applied first and
\* its results feed the tile's own map: new(x) = tile_map(accumulated(x)).
C10_CompositionOrder ==
    [][AffineMapTile =>
        LET tm == TileMap(map, NextTile)
        IN  /\ tm.numDims = getNumResults(map)
            /\ map'.numDims = map.numDims
            /\ \A x \in CoordTuples(map.numDims) :
                 EvalMap(map', x) = EvalMap(tm, EvalMap(map, x))]_vars

C10_Witness ==
    /\ lpc = "mapping" /\ tileIdx = 2
    /\ Len(parsed.tiles[1]) > 0 /\ Len(parsed.tiles[2]) > 0
    /\ \E x \in CoordTuples(map.numDims) : \E i \in 1..getNumResults(map) :
         EvalMap(map, x)[i] # 0

(***************************************************************************)
(* Specifications.                                                         *)
(***************************************************************************)
ProverNext ==
    \/ OutOfFuel
    \/ AssumeCase
    \/ MulCallRhs
    \/ MulRhsProved
    \/ MulCallLhs
    \/ MulReturnLhs
    \/ ConstCase
    \/ CastCall
    \/ CastReturn
    \/ OpaqueCase

ProverSpec == ProverInitial /\ [][ProverNext]_vars

ParseNext ==
    \/ PrintAttr
    \/ Parse
    \/ ParseNoSectionComma
    \/ ParseNoIntegerComma
    \/ ParseUnclosedParen
    \/ ParseUnclosedSquare
    \/ ParseNoStrides
    \/ ParseNoGreater
    \/ ParseNonInteger

ParseSpec == LayoutInitial /\ [][ParseNext]_vars

AffineNext ==
    \/ PrintAttr
    \/ Parse
    \/ AffineMapEntry
    \/ AffineMapTile
    \/ AffineMapFatal
    \/ AffineMapReturn

AffineSpec == LayoutInitial /\ [][AffineNext]_vars

Init == ProverInitial \/ LayoutInitial
Next == ProverNext \/ ParseNext \/ AffineNext
Spec == Init /\ [][Next]_vars

====
